---- MODULE Spec2Model ----
(***************************************************************************)
(* Model of update_logos.py: the logo pipeline that groups the program     *)
(* entries of each schedule document by show name, fetches one logo per    *)
(* show through a thread pool, rewrites every show_logo and saves the      *)
(* document through a temporary file and os.replace.                       *)
(*                                                                         *)
(* Strings are sequences of chunks.  Every character the code inspects     *)
(* (whitespace, the letters of "http", the characters slugify looks at)    *)
(* is a chunk of its own; a run of characters the code never looks into    *)
(* is one chunk.                                                           *)
(***************************************************************************)
EXTENDS Integers, Sequences, FiniteSets, TLC

\* ------------------------------------------------------------------------
\* Bounds of the model
\* ------------------------------------------------------------------------
MaxEntries == 2

MaxRuns == 2

\* longest show name slugify is called on by itself
MaxLen == 3

\* ------------------------------------------------------------------------
\* Config (update_logos.py, lines 27-36 and the --workers option)
\* ------------------------------------------------------------------------
RETRY_COUNT == 3

Workers == 2

DEFAULT_OUT_DIR == <<"downloaded-images">>

DEFAULT_BASE_URL == <<"h", "t", "t", "p", "s", "://tv-programma.it/wp-content/uploads">>

FALLBACK_LOGO_URL ==
    <<"h", "t", "t", "p", "s", "://tv-programma.it/wp-content/uploads/2026/02/sample-image.webp">>

\* JSON null, what row.get returns for a key whose value is null
None == <<"<None>">>

\* ------------------------------------------------------------------------
\* String helpers
\* ------------------------------------------------------------------------
IsSpace(c) == c \in {" ", "\t"}

RECURSIVE LStrip(_)
LStrip(s) == IF s # <<>> /\ IsSpace(Head(s)) THEN LStrip(Tail(s)) ELSE s

RECURSIVE RStrip(_)
RStrip(s) ==
    IF s # <<>> /\ IsSpace(s[Len(s)]) THEN RStrip(SubSeq(s, 1, Len(s) - 1)) ELSE s

\* str.strip()
Strip(s) == RStrip(LStrip(s))

\* url.startswith("http")
StartsWithHttp(s) == Len(s) >= 4 /\ SubSeq(s, 1, 4) = <<"h", "t", "t", "p">>

\* str.lower() on one character
\* "KELVIN" is the one character U+212A KELVIN SIGN, whose lower() is "k";
\* "E'" and "e'" are the one character E and e with an acute accent
Lower(c) ==
    CASE c = "A" -> "a"
      [] c = "B" -> "b"
      [] c = "N" -> "n"
      [] c = "KELVIN" -> "k"
      [] c = "E'" -> "e'"
      [] OTHER -> c

\* the character class [a-z0-9] over the characters of the model
IsSlugChar(c) ==
    c \in {"a", "b", "n", "h", "t", "p", "s", "x", "y", "0", "1", "u", "k", "o", "w"}

LowerAll(s) == [i \in 1..Len(s) |-> Lower(s[i])]

\* re.sub(r"[^a-z0-9]+", "-", name): every maximal run of other characters
\* becomes one "-"
RECURSIVE SubNonSlug(_)
SubNonSlug(s) ==
    IF s = <<>> THEN <<>>
    ELSE IF IsSlugChar(Head(s)) THEN <<Head(s)>> \o SubNonSlug(Tail(s))
    ELSE LET rest == SubNonSlug(Tail(s))
         IN  IF Tail(s) # <<>> /\ ~IsSlugChar(Head(Tail(s))) THEN rest
             ELSE <<"-">> \o rest

\* re.sub(r"-+", "-", name)
RECURSIVE CollapseDashes(_)
CollapseDashes(s) ==
    IF s = <<>> THEN <<>>
    ELSE IF Head(s) = "-" /\ Tail(s) # <<>> /\ Head(Tail(s)) = "-"
         THEN CollapseDashes(Tail(s))
         ELSE <<Head(s)>> \o CollapseDashes(Tail(s))

RECURSIVE LStripDash(_)
LStripDash(s) == IF s # <<>> /\ Head(s) = "-" THEN LStripDash(Tail(s)) ELSE s

RECURSIVE RStripDash(_)
RStripDash(s) ==
    IF s # <<>> /\ s[Len(s)] = "-" THEN RStripDash(SubSeq(s, 1, Len(s) - 1)) ELSE s

\* .strip("-")
StripDashes(s) == RStripDash(LStripDash(s))

\* slugify without the .strip("-")
slugifyNoStrip(name) ==
    LET n == CollapseDashes(SubNonSlug(LowerAll(name)))
    IN  IF n = <<>> THEN <<"u", "n", "k", "n", "o", "w", "n">> ELSE n

slugify(name) ==
    LET n == StripDashes(CollapseDashes(SubNonSlug(LowerAll(name))))
    IN  IF n = <<>> THEN <<"u", "n", "k", "n", "o", "w", "n">> ELSE n

\* ------------------------------------------------------------------------
\* Insertion-ordered dicts: sequences of [k, v] records
\* ------------------------------------------------------------------------
HasKey(d, k) == \E i \in 1..Len(d) : d[i].k = k

\* d.setdefault(k, []).append(x)
AppendTo(d, k, x) ==
    IF HasKey(d, k)
    THEN [i \in 1..Len(d) |-> IF d[i].k = k THEN [k |-> k, v |-> Append(d[i].v, x)] ELSE d[i]]
    ELSE Append(d, [k |-> k, v |-> <<x>>])

\* ------------------------------------------------------------------------
\* process_json_file: grouping (lines 119-136)
\* ------------------------------------------------------------------------
\* .strip() on a value that is no string raises AttributeError
RowRaises(row) == row.show_name = None \/ row.show_logo = None

\* GroupStep recording an entry's index only when its own URL is usable
GroupStepValidOnly(acc, idx, row) ==
    LET show == Strip(row.show_name)
        url  == Strip(row.show_logo)
    IN  IF show = <<>> \/ ~StartsWithHttp(url) THEN acc
        ELSE [show_to_url |->
                 IF ~HasKey(acc.show_to_url, show)
                 THEN Append(acc.show_to_url, [k |-> show, v |-> url])
                 ELSE acc.show_to_url,
              show_to_indexes |-> AppendTo(acc.show_to_indexes, show, idx)]

\* GroupStep without the "if not show: continue"
GroupStepNoSkip(acc, idx, row) ==
    LET show == Strip(row.show_name)
        url  == Strip(row.show_logo)
    IN  [show_to_url |->
            IF ~HasKey(acc.show_to_url, show) /\ StartsWithHttp(url)
            THEN Append(acc.show_to_url, [k |-> show, v |-> url])
            ELSE acc.show_to_url,
         show_to_indexes |-> AppendTo(acc.show_to_indexes, show, idx)]

\* GroupStep keyed by the lower-cased name
GroupStepLower(acc, idx, row) ==
    LET show == LowerAll(Strip(row.show_name))
        url  == Strip(row.show_logo)
    IN  IF show = <<>> THEN acc
        ELSE [show_to_url |->
                 IF ~HasKey(acc.show_to_url, show) /\ StartsWithHttp(url)
                 THEN Append(acc.show_to_url, [k |-> show, v |-> url])
                 ELSE acc.show_to_url,
              show_to_indexes |-> AppendTo(acc.show_to_indexes, show, idx)]

\* GroupStep without "show not in show_to_url": a later URL replaces the first
GroupStepLastWins(acc, idx, row) ==
    LET show == Strip(row.show_name)
        url  == Strip(row.show_logo)
    IN  IF show = <<>> THEN acc
        ELSE [show_to_url |->
                 IF ~StartsWithHttp(url) THEN acc.show_to_url
                 ELSE IF ~HasKey(acc.show_to_url, show)
                 THEN Append(acc.show_to_url, [k |-> show, v |-> url])
                 ELSE [i \in 1..Len(acc.show_to_url) |->
                          IF acc.show_to_url[i].k = show
                          THEN [k |-> show, v |-> url] ELSE acc.show_to_url[i]],
              show_to_indexes |-> AppendTo(acc.show_to_indexes, show, idx)]

\* one iteration of the loop over enumerate(programs)
GroupStep(acc, idx, row) ==
    LET show == Strip(row.show_name)
        url  == Strip(row.show_logo)
    IN  IF show = <<>> THEN acc
        ELSE [show_to_url |->
                 IF ~HasKey(acc.show_to_url, show) /\ StartsWithHttp(url)
                 THEN Append(acc.show_to_url, [k |-> show, v |-> url])
                 ELSE acc.show_to_url,
              show_to_indexes |-> AppendTo(acc.show_to_indexes, show, idx)]

RECURSIVE GroupFrom(_, _, _)
GroupFrom(programs, idx, acc) ==
    IF idx > Len(programs) THEN acc
    ELSE GroupFrom(programs, idx + 1, GroupStep(acc, idx, programs[idx]))

Group(programs) ==
    GroupFrom(programs, 1, [show_to_url |-> <<>>, show_to_indexes |-> <<>>])

\* ------------------------------------------------------------------------
\* Namer: destination path and public URL
\* ------------------------------------------------------------------------
\* target_dir / f"{slug}.webp", target_dir = out_root / channel_folder / day
OutPath(channel_folder, day, show_name) == <<channel_folder, day, slugify(show_name)>>

\* PublicUrl leaving the day bucket out of the path
PublicUrlNoDay(channel_folder, day, show_name) ==
    DEFAULT_BASE_URL \o <<"/">> \o DEFAULT_OUT_DIR \o <<"/">> \o channel_folder
        \o <<"/">> \o slugify(show_name) \o <<".webp">>

\* f"{base_url}/{out_root.name}/{channel_folder}/{day}/{slug}.webp"
PublicUrl(channel_folder, day, show_name) ==
    DEFAULT_BASE_URL \o <<"/">> \o DEFAULT_OUT_DIR \o <<"/">> \o channel_folder
        \o <<"/">> \o day \o <<"/">> \o slugify(show_name) \o <<".webp">>

\* BuildTasks iterating over show_to_url from its second item on
BuildTasksSkipFirst(show_to_url, channel_folder, day) ==
    [i \in 1..(Len(show_to_url) - 1) |->
        [show_name |-> show_to_url[i + 1].k,
         url       |-> show_to_url[i + 1].v,
         out_path  |-> OutPath(channel_folder, day, show_to_url[i + 1].k),
         st        |-> "queued",
         attempt   |-> 0,
         body      |-> "none",
         probe     |-> "none",
         sleeps    |-> 0,
         err       |-> "none"]]

\* tasks.append((show_name, url, out_path)) for every item of show_to_url,
\* plus the worker's position
BuildTasks(show_to_url, channel_folder, day) ==
    [i \in 1..Len(show_to_url) |->
        [show_name |-> show_to_url[i].k,
         url       |-> show_to_url[i].v,
         out_path  |-> OutPath(channel_folder, day, show_to_url[i].k),
         st        |-> "queued",
         attempt   |-> 0,
         body      |-> "none",
         probe     |-> "none",
         sleeps    |-> 0,
         err       |-> "none"]]

\* ------------------------------------------------------------------------
\* Rewriter (lines 165-190)
\* ------------------------------------------------------------------------
\* results_map = {r[0]: (r[1], r[2]) for r in results}: the last result of a
\* name wins
InResults(results, show_name) == \E i \in 1..Len(results) : results[i].show_name = show_name

ResultOf(results, show_name) ==
    LET last == CHOOSE i \in 1..Len(results) :
                    /\ results[i].show_name = show_name
                    /\ \A j \in (i + 1)..Len(results) : results[j].show_name # show_name
    IN  results[last]

\* FinalUrl never looking at the task's error
FinalUrlIgnoringErr(show_name, results, channel_folder, day) ==
    IF InResults(results, show_name)
    THEN PublicUrl(channel_folder, day, show_name)
    ELSE FALLBACK_LOGO_URL

FinalUrl(show_name, results, channel_folder, day) ==
    IF InResults(results, show_name)
    THEN IF ResultOf(results, show_name).err # "none"
         THEN FALLBACK_LOGO_URL
         ELSE PublicUrl(channel_folder, day, show_name)
    ELSE FALLBACK_LOGO_URL

\* for idx in indexes: programs[idx]["show_logo"] = final_url
RewriteEntries(programs, show_to_indexes, results, channel_folder, day) ==
    [idx \in 1..Len(programs) |->
        IF \E g \in 1..Len(show_to_indexes) :
               \E n \in 1..Len(show_to_indexes[g].v) : show_to_indexes[g].v[n] = idx
        THEN LET g == CHOOSE g \in 1..Len(show_to_indexes) :
                          \E n \in 1..Len(show_to_indexes[g].v) : show_to_indexes[g].v[n] = idx
             IN  [programs[idx] EXCEPT
                     !.show_logo = FinalUrl(show_to_indexes[g].k, results, channel_folder, day)]
        ELSE programs[idx]]

\* Rewrite storing the stripped show name back into each entry
RewriteStrippingNames(programs, show_to_indexes, results, channel_folder, day) ==
    LET out == RewriteEntries(programs, show_to_indexes, results, channel_folder, day)
    IN  [idx \in 1..Len(out) |-> [out[idx] EXCEPT !.show_name = Strip(@)]]

\* Rewrite leaving the loop over show_to_indexes.items() after its first item
RewriteFirstGroupOnly(programs, show_to_indexes, results, channel_folder, day) ==
    RewriteEntries(programs,
                   IF show_to_indexes = <<>> THEN <<>> ELSE <<Head(show_to_indexes)>>,
                   results, channel_folder, day)

Rewrite(programs, show_to_indexes, results, channel_folder, day) ==
    RewriteEntries(programs, show_to_indexes, results, channel_folder, day)

\* ------------------------------------------------------------------------
\* The file system, the network and the run
\* ------------------------------------------------------------------------
VARIABLES
    root,       \* the schedules directory: "ok", "missing" or "unreadable"
    disk,       \* document path -> content of the file, for the files that exist
    tmp,        \* document path -> the document's .tmp file
    cache,      \* the asset paths that exist under the output root
    pc,         \* position of main / process_json_file
    dayIdx,     \* how many of the day buckets main has entered
    pending,    \* stems of the current bucket's documents still to process
    cur,        \* path of the document being processed
    data,       \* the parsed document held in memory
    groups,     \* show_to_url and show_to_indexes of the document
    tasks,      \* the document's tasks, each with its worker's position
    requests,   \* session.get calls issued in this run
    run,        \* number of the run (invocation of main)
    prior,      \* content of every document when the run started
    entered,    \* documents process_json_file was called on in this run
    saved,      \* run -> documents os.replace succeeded on in that run
    net,        \* logo URL -> what the network answers to a request for it
    workers,    \* the --workers option of the run: the size of the pool
    slugName,   \* the argument of a call of slugify on its own
    slug        \* what that call returned, <<>> before it has

vars == <<slugName, slug, workers, net, root, disk, tmp, cache, pc, dayIdx, pending, cur, data, groups, tasks,
          requests, run, prior, entered, saved>>

\* for day in ("today", "tomorrow")
Days == <<<<"today">>, <<"tomorrow">>>>

\* file stems in the order sorted() gives them
Stems == <<<<"a">>, <<"b">>>>

DocPaths == {<<Days[d], Stems[f]>> : d \in 1..Len(Days), f \in 1..Len(Stems)}

NoDoc == <<>>

NoData == [json |-> "none", fmt |-> "none", channel_name |-> "", date |-> "", programs |-> <<>>]

NoGroups == [show_to_url |-> <<>>, show_to_indexes |-> <<>>]

NoTmp == [st |-> "absent", text |-> NoData]

\* what an upstream run can have left in a document
InputNames == {<<" ">>, <<"A">>, <<"a">>, <<" ", "A">>, None}

HttpX == <<"h", "t", "t", "p", ":x">>

InputLogos == {<<>>, <<"f", "t", "p", ":x">>, HttpX, <<" ", "h", "t", "t", "p", ":y">>}

\* every name with every logo, except that the blank name, the null name and
\* the non-http logo each come in one combination
InputEntries ==
    {e \in InputNames \X InputLogos :
        /\ e[1] = <<" ">> => e[2] = HttpX
        /\ e[1] = None => e[2] = <<>>
        /\ e[2] = <<"f", "t", "p", ":x">> => e[1] = <<"A">>}

InputPrograms == UNION {[1..n -> InputEntries] : n \in 0..MaxEntries}

\* the entries are told apart by start_time, which the pipeline never reads
MkPrograms(f) ==
    [i \in DOMAIN f |-> [show_name |-> f[i][1], show_logo |-> f[i][2], start_time |-> i]]

MkDoc(stem, fmt, f) ==
    [json |-> "object", fmt |-> fmt, channel_name |-> stem, date |-> "2026-02-01",
     programs |-> MkPrograms(f)]

\* a file that cannot be read or parsed
InvalidDoc == [NoData EXCEPT !.json = "invalid"]

\* valid JSON whose top level is an array
ArrayDoc == [NoData EXCEPT !.json = "array"]

FirstPath == <<Days[1], Stems[1]>>

SecondPath == <<Days[2], Stems[2]>>

\* the first document of a run: one that fails in each way, one that succeeds
FirstDocs ==
    {InvalidDoc, ArrayDoc,
     MkDoc("a", "compact", <<<<None, <<>>>>>>),
     MkDoc("a", "compact", <<<<<<"b">>, <<>>>>>>)}

\* the document that follows it
NextDocs == {InvalidDoc, MkDoc("b", "compact", <<<<<<"A">>, HttpX>>>>)}

\* the document of a run over one document: any entries
SoleDocs == {MkDoc("b", "indent2", f) : f \in InputPrograms} \cup {InvalidDoc}

InitMain ==
    /\ tmp = [p \in DocPaths |-> NoTmp]
    /\ pc = "main"
    /\ dayIdx = 0
    /\ pending = <<>>
    /\ cur = NoDoc
    /\ data = NoData
    /\ groups = NoGroups
    /\ tasks = <<>>
    /\ requests = 0
    /\ run = 1
    /\ prior = disk
    /\ entered = <<>>
    /\ saved = [r \in 1..MaxRuns |-> {}]

\* the logo URLs of the input documents, as process_json_file records them
InputUrls == {Strip(l) : l \in {x \in InputLogos : StartsWithHttp(Strip(x))}}

\* session.get(url) and resp.raise_for_status(): the URL answers every request
\* with an image, with a body that is no image, with an error, or ("any")
\* with a different one of the three on each request
Responses == {"image", "garbage", "down"}

Response(url) == IF url \in DOMAIN net THEN net[url] ELSE "any"

InitFiles ==
    /\ root \in {"ok", "missing", "unreadable"}
    /\ \/ /\ root = "ok"
          /\ \/ \E d1 \in FirstDocs, d2 \in NextDocs :
                    disk = (FirstPath :> d1) @@ (SecondPath :> d2)
             \/ \E d \in SoleDocs : disk = (SecondPath :> d)
          /\ cache \in SUBSET {OutPath(SecondPath[2], SecondPath[1], <<"a">>)}
       \/ /\ root = "missing"
          /\ disk = <<>>
          /\ cache = {}
       \/ /\ root = "unreadable"
          /\ \E d1 \in FirstDocs : disk = (FirstPath :> d1)
          /\ cache = {}
    /\ InitMain

Init ==
    /\ InitFiles
    /\ net = [u \in InputUrls |-> "any"]
    /\ workers = Workers
    /\ slugName = <<>>
    /\ slug = <<>>

\* ------------------------------------------------------------------------
\* main (lines 206-226)
\* ------------------------------------------------------------------------
\* sorted(folder.glob("*.json")), as stems
Glob(day) == SelectSeq(Stems, LAMBDA f : <<day, f>> \in DOMAIN disk)

FolderExists(day) == \E f \in 1..Len(Stems) : <<day, Stems[f]>> \in DOMAIN disk

AtLoopHead == pc = "main" /\ pending = <<>> /\ dayIdx < Len(Days)

\* if not folder.exists(): continue
SkipFolder ==
    /\ AtLoopHead
    /\ \/ root = "missing"
       \/ root = "unreadable"
       \/ root = "ok" /\ ~FolderExists(Days[dayIdx + 1])
    /\ dayIdx' = dayIdx + 1
    /\ UNCHANGED <<slugName, slug, workers, net, root, disk, tmp, cache, pc, pending, cur, data, groups, tasks,
                   requests, run, prior, entered, saved>>

\* FolderDenied for code that lists the folder without the exists() check
FolderDeniedOrMissing ==
    /\ AtLoopHead
    /\ root \in {"unreadable", "missing"}
    /\ pc' = "crashed"
    /\ UNCHANGED <<slugName, slug, workers, net, root, disk, tmp, cache, dayIdx, pending, cur, data, groups, tasks,
                   requests, run, prior, entered, saved>>

\* folder.exists() raises PermissionError when the root cannot be searched
FolderDenied ==
    /\ AtLoopHead
    /\ root = "unreadable"
    /\ pc' = "crashed"
    /\ UNCHANGED <<slugName, slug, workers, net, root, disk, tmp, cache, dayIdx, pending, cur, data, groups, tasks,
                   requests, run, prior, entered, saved>>

ListFolder ==
    /\ AtLoopHead
    /\ root = "ok"
    /\ FolderExists(Days[dayIdx + 1])
    /\ dayIdx' = dayIdx + 1
    /\ pending' = Glob(Days[dayIdx + 1])
    /\ UNCHANGED <<slugName, slug, workers, net, root, disk, tmp, cache, pc, cur, data, groups, tasks,
                   requests, run, prior, entered, saved>>

Finish ==
    /\ pc = "main"
    /\ pending = <<>>
    /\ dayIdx = Len(Days)
    /\ pc' = "done"
    /\ UNCHANGED <<slugName, slug, workers, net, root, disk, tmp, cache, dayIdx, pending, cur, data, groups, tasks,
                   requests, run, prior, entered, saved>>

\* ------------------------------------------------------------------------
\* process_json_file: load, group, build the tasks (lines 104-144)
\* ------------------------------------------------------------------------
\* json.loads(json_path.read_text()): the parsed value carries no formatting
Loads(text) == [text EXCEPT !.fmt = "none"]

\* json.dumps(data, indent=2, ensure_ascii=False)
Dumps(d) == [d EXCEPT !.fmt = "indent2"]

NextPath == <<Days[dayIdx], Head(pending)>>

\* process_json_file returns to main's loop; its locals are gone
Return ==
    /\ pc' = "main"
    /\ data' = NoData
    /\ groups' = NoGroups
    /\ tasks' = <<>>

Call ==
    /\ pc = "main"
    /\ pending # <<>>
    /\ cur' = NextPath
    /\ pending' = Tail(pending)
    /\ entered' = Append(entered, NextPath)

\* (mutant) json.loads outside the try: the parse error leaves process_json_file
LoadInvalidUncaught ==
    /\ Call
    /\ disk[NextPath].json = "invalid"
    /\ pc' = "crashed"
    /\ UNCHANGED <<slugName, slug, workers, net, root, disk, tmp, cache, dayIdx, data, groups, tasks,
                   requests, run, prior, saved>>

\* except Exception: logger.error("Invalid JSON"); return
LoadInvalid ==
    /\ Call
    /\ disk[NextPath].json = "invalid"
    /\ Return
    /\ UNCHANGED <<slugName, slug, workers, net, root, disk, tmp, cache, dayIdx, requests, run, prior, saved>>

\* the exception a document raises between the parse and the pool:
\* data.get on a JSON array, .strip() on a null show_name or show_logo
LoadRaises(text) ==
    \/ text.json = "array"
    \/ /\ text.json = "object"
       /\ \E i \in 1..Len(text.programs) : RowRaises(text.programs[i])

\* nothing in process_json_file or main catches it
LoadCrash ==
    /\ Call
    /\ LoadRaises(disk[NextPath])
    /\ pc' = "crashed"
    /\ data' = NoData
    /\ groups' = NoGroups
    /\ tasks' = <<>>
    /\ UNCHANGED <<slugName, slug, workers, net, root, disk, tmp, cache, dayIdx, requests, run, prior, saved>>

LoadOk ==
    /\ Call
    /\ disk[NextPath].json = "object"
    /\ ~LoadRaises(disk[NextPath])
    /\ data' = Loads(disk[NextPath])
    /\ groups' = Group(disk[NextPath].programs)
    /\ tasks' = BuildTasks(Group(disk[NextPath].programs).show_to_url,
                           NextPath[2], NextPath[1])
    /\ pc' = "pool"
    /\ UNCHANGED <<slugName, slug, workers, net, root, disk, tmp, cache, dayIdx, requests, run, prior, saved>>

\* ------------------------------------------------------------------------
\* worker and download_with_retries (lines 69-95, 147-163)
\* ------------------------------------------------------------------------
Running == {i \in 1..Len(tasks) : tasks[i].st \in {"download", "convert"}}

\* CanStart for a pool that gives every submitted task a thread of its own
CanStartUnbounded(i) ==
    /\ pc = "pool"
    /\ i \in 1..Len(tasks)
    /\ tasks[i].st = "queued"
    /\ \A j \in 1..(i - 1) : tasks[j].st # "queued"

\* the pool's threads take the queued tasks in submission order
CanStart(i) ==
    /\ pc = "pool"
    /\ i \in 1..Len(tasks)
    /\ tasks[i].st = "queued"
    /\ \A j \in 1..(i - 1) : tasks[j].st # "queued"
    /\ Cardinality(Running) < workers

\* if out_path.exists(): return show_name, out_path, None
StartCached(i) ==
    /\ CanStart(i)
    /\ tasks[i].out_path \in cache
    /\ tasks' = [tasks EXCEPT ![i].st = "done", ![i].probe = "hit"]
    /\ UNCHANGED <<slugName, slug, workers, net, root, disk, tmp, cache, pc, dayIdx, pending, cur, data, groups,
                   requests, run, prior, entered, saved>>

StartDownload(i) ==
    /\ CanStart(i)
    /\ tasks[i].out_path \notin cache
    /\ tasks' = [tasks EXCEPT ![i].st = "download", ![i].probe = "miss"]
    /\ UNCHANGED <<slugName, slug, workers, net, root, disk, tmp, cache, pc, dayIdx, pending, cur, data, groups,
                   requests, run, prior, entered, saved>>

Downloading(i) ==
    /\ pc = "pool"
    /\ i \in 1..Len(tasks)
    /\ tasks[i].st = "download"

\* session.get succeeds: return resp.content, an image or something else
AttemptOk(i, body) ==
    /\ Downloading(i)
    /\ Response(tasks[i].url) \in {"any", body}
    /\ requests' = requests + 1
    /\ tasks' = [tasks EXCEPT ![i].st = "convert", ![i].attempt = @ + 1, ![i].body = body]
    /\ UNCHANGED <<slugName, slug, workers, net, root, disk, tmp, cache, pc, dayIdx, pending, cur, data, groups,
                   run, prior, entered, saved>>

\* AfterFailure comparing with <= : one more attempt after the last
AfterFailureOneMore(attempt) == IF attempt <= RETRY_COUNT THEN "download" ELSE "done"

\* position after a failed attempt: retry while attempt < RETRY_COUNT, else
\* raise last_err, which worker turns into a result
AfterFailure(attempt) == IF attempt < RETRY_COUNT THEN "download" ELSE "done"

AttemptFail(i) ==
    /\ Downloading(i)
    /\ Response(tasks[i].url) \in {"any", "down"}
    /\ requests' = requests + 1
    /\ tasks' = [tasks EXCEPT ![i].st = AfterFailure(tasks[i].attempt + 1),
                              ![i].attempt = @ + 1,
                              ![i].sleeps = IF AfterFailure(tasks[i].attempt + 1) = "download"
                                            THEN @ + 1 ELSE @,
                              ![i].err = IF AfterFailure(tasks[i].attempt + 1) = "done"
                                         THEN "network" ELSE "none"]
    /\ UNCHANGED <<slugName, slug, workers, net, root, disk, tmp, cache, pc, dayIdx, pending, cur, data, groups,
                   run, prior, entered, saved>>

Converting(i) ==
    /\ pc = "pool"
    /\ i \in 1..Len(tasks)
    /\ tasks[i].st = "convert"

\* (mutant) "Invalid image data" raised outside worker's try: it leaves
\* exe.map and process_json_file
ConvertBadUncaught(i) ==
    /\ Converting(i)
    /\ tasks[i].body = "garbage"
    /\ pc' = "crashed"
    /\ UNCHANGED <<slugName, slug, workers, net, root, disk, tmp, cache, dayIdx, pending, cur, data, groups,
                   tasks, requests, run, prior, entered, saved>>

\* (mutant) the conversion inside the retry loop: a body that is no image is
\* fetched again while attempts are left
ConvertBadRetried(i) ==
    /\ Converting(i)
    /\ tasks[i].body = "garbage"
    /\ tasks' = [tasks EXCEPT ![i].st = AfterFailure(tasks[i].attempt),
                              ![i].err = IF AfterFailure(tasks[i].attempt) = "done"
                                         THEN "decode" ELSE "none"]
    /\ UNCHANGED <<slugName, slug, workers, net, root, disk, tmp, cache, pc, dayIdx, pending, cur, data, groups,
                   requests, run, prior, entered, saved>>

\* Image.open raises UnidentifiedImageError -> RuntimeError("Invalid image data")
ConvertBad(i) ==
    /\ Converting(i)
    /\ tasks[i].body = "garbage"
    /\ tasks' = [tasks EXCEPT ![i].st = "done", ![i].err = "decode"]
    /\ UNCHANGED <<slugName, slug, workers, net, root, disk, tmp, cache, pc, dayIdx, pending, cur, data, groups,
                   requests, run, prior, entered, saved>>

\* (mutant) convert_to_webp returning without having written out_path
ConvertSaveNoFile(i) ==
    /\ Converting(i)
    /\ tasks[i].body = "image"
    /\ tasks' = [tasks EXCEPT ![i].st = "done"]
    /\ UNCHANGED <<slugName, slug, workers, net, root, disk, tmp, cache, pc, dayIdx, pending, cur, data, groups,
                   requests, run, prior, entered, saved>>

\* img.save(out_path, "WEBP", ...)
ConvertSave(i) ==
    /\ Converting(i)
    /\ tasks[i].body = "image"
    /\ cache' = cache \cup {tasks[i].out_path}
    /\ tasks' = [tasks EXCEPT ![i].st = "done"]
    /\ UNCHANGED <<slugName, slug, workers, net, root, disk, tmp, pc, dayIdx, pending, cur, data, groups,
                   requests, run, prior, entered, saved>>

\* img.save raises (OSError); the file it opened may or may not be left behind
ConvertSaveFail(i) ==
    /\ Converting(i)
    /\ tasks[i].body = "image"
    /\ cache' \in {cache, cache \cup {tasks[i].out_path}}
    /\ tasks' = [tasks EXCEPT ![i].st = "done", ![i].err = "write"]
    /\ UNCHANGED <<slugName, slug, workers, net, root, disk, tmp, pc, dayIdx, pending, cur, data, groups,
                   requests, run, prior, entered, saved>>

\* ------------------------------------------------------------------------
\* process_json_file: rewrite and atomic save (lines 162-200)
\* ------------------------------------------------------------------------
\* AllDone returning once every task was handed to a thread
AllStarted == \A i \in 1..Len(tasks) : tasks[i].st # "queued"

\* list(exe.map(worker, tasks)) returns once every task has a result
AllDone == \A i \in 1..Len(tasks) : tasks[i].st = "done"

RewriteDoc ==
    /\ pc = "pool"
    /\ AllDone
    /\ data' = [data EXCEPT !.programs =
                   Rewrite(data.programs, groups.show_to_indexes, tasks, cur[2], cur[1])]
    /\ pc' = "save"
    /\ UNCHANGED <<slugName, slug, workers, net, root, disk, tmp, cache, dayIdx, pending, cur, groups, tasks,
                   requests, run, prior, entered, saved>>

\* a file whose write was cut short
Truncated == [NoData EXCEPT !.json = "invalid", !.fmt = "indent2"]

\* temp_path.write_text(json.dumps(data, ...))
WriteTemp ==
    /\ pc = "save"
    /\ tmp' = [tmp EXCEPT ![cur] = [st |-> "full", text |-> Dumps(data)]]
    /\ pc' = "replace"
    /\ UNCHANGED <<slugName, slug, workers, net, root, disk, cache, dayIdx, pending, cur, data, groups, tasks,
                   requests, run, prior, entered, saved>>

\* AfterWriteError for code that swallows the error and goes on to os.replace
AfterWriteErrorSwallowed == "replace"

\* where a failed write_text continues: the except clause
AfterWriteError == "except"

WriteTempFail ==
    /\ pc = "save"
    /\ tmp' \in {tmp, [tmp EXCEPT ![cur] = [st |-> "partial", text |-> Truncated]]}
    /\ pc' = AfterWriteError
    /\ UNCHANGED <<slugName, slug, workers, net, root, disk, cache, dayIdx, pending, cur, data, groups, tasks,
                   requests, run, prior, entered, saved>>

\* os.replace(temp_path, json_path): the rename puts the temporary file's
\* content at the document's path in one step
Replaced(d, p, t) == [d EXCEPT ![p] = t[p].text]

ReplaceOk ==
    /\ pc = "replace"
    /\ tmp[cur].st # "absent"
    /\ disk' = Replaced(disk, cur, tmp)
    /\ tmp' = [tmp EXCEPT ![cur] = NoTmp]
    /\ saved' = [saved EXCEPT ![run] = @ \cup {cur}]
    /\ Return
    /\ UNCHANGED <<slugName, slug, workers, net, root, cache, dayIdx, pending, cur, requests, run, prior, entered>>

ReplaceFail ==
    /\ pc = "replace"
    /\ pc' = "except"
    /\ UNCHANGED <<slugName, slug, workers, net, root, disk, tmp, cache, dayIdx, pending, cur, data, groups, tasks,
                   requests, run, prior, entered, saved>>

\* (mutant) the except clause without the unlink
SaveFailedKeepsTemp ==
    /\ pc = "except"
    /\ Return
    /\ UNCHANGED <<slugName, slug, workers, net, root, disk, tmp, cache, dayIdx, pending, cur, requests, run, prior,
                   entered, saved>>

\* except Exception: if temp_path.exists(): temp_path.unlink()
SaveFailed ==
    /\ pc = "except"
    /\ tmp' = [tmp EXCEPT ![cur] = NoTmp]
    /\ Return
    /\ UNCHANGED <<slugName, slug, workers, net, root, disk, cache, dayIdx, pending, cur, requests, run, prior,
                   entered, saved>>

\* temp_path.unlink() raises inside the except clause; nothing in
\* process_json_file or main catches it
UnlinkFail ==
    /\ pc = "except"
    /\ tmp[cur].st # "absent"
    /\ pc' = "crashed"
    /\ data' = NoData
    /\ groups' = NoGroups
    /\ tasks' = <<>>
    /\ UNCHANGED <<slugName, slug, workers, net, root, disk, tmp, cache, dayIdx, pending, cur, requests, run, prior,
                   entered, saved>>

Next ==
    \/ SkipFolder
    \/ FolderDenied
    \/ ListFolder
    \/ Finish
    \/ LoadInvalid
    \/ LoadCrash
    \/ LoadOk
    \/ \E i \in 1..MaxEntries : StartCached(i)
    \/ \E i \in 1..MaxEntries : StartDownload(i)
    \/ \E i \in 1..MaxEntries, body \in {"image", "garbage"} : AttemptOk(i, body)
    \/ \E i \in 1..MaxEntries : AttemptFail(i)
    \/ \E i \in 1..MaxEntries : ConvertBad(i)
    \/ \E i \in 1..MaxEntries : ConvertSave(i)
    \/ \E i \in 1..MaxEntries : ConvertSaveFail(i)
    \/ RewriteDoc
    \/ WriteTemp
    \/ WriteTempFail
    \/ ReplaceOk
    \/ ReplaceFail
    \/ SaveFailed
    \/ UnlinkFail

Spec == Init /\ [][Next]_vars

\* ------------------------------------------------------------------------
\* Running the pipeline again over what a finished run left behind
\* ------------------------------------------------------------------------
Rerun ==
    /\ pc = "done"
    /\ run < MaxRuns
    /\ run' = run + 1
    /\ pc' = "main"
    /\ dayIdx' = 0
    /\ pending' = <<>>
    /\ cur' = NoDoc
    /\ requests' = 0
    /\ prior' = disk
    /\ entered' = <<>>
    /\ UNCHANGED <<slugName, slug, workers, net, root, disk, tmp, cache, data, groups, tasks, saved>>

\* the documents of a re-run: at most one entry each
InitRerun ==
    /\ Init
    /\ \A p \in DOMAIN disk : Len(disk[p].programs) <= 1

NextRerun == Next \/ Rerun

SpecRerun == InitRerun /\ [][NextRerun]_vars

\* ------------------------------------------------------------------------
\* One run against a network that answers each URL the same way every time
\* ------------------------------------------------------------------------
InitNet ==
    /\ InitFiles
    /\ net \in [InputUrls -> Responses]
    /\ workers = Workers
    /\ slugName = <<>>
    /\ slug = <<>>

SpecNet == InitNet /\ [][Next]_vars

\* ------------------------------------------------------------------------
\* One run with any pool size up to Workers
\* ------------------------------------------------------------------------
InitPool ==
    /\ InitFiles
    /\ net = [u \in InputUrls |-> "any"]
    /\ workers \in 1..Workers
    /\ slugName = <<>>
    /\ slug = <<>>

SpecPool == InitPool /\ [][Next]_vars

\* ------------------------------------------------------------------------
\* slugify called on its own, on every name of up to MaxLen characters
\* ------------------------------------------------------------------------
\* ASCII letters and digits, a space, a dash, and letters outside ASCII
SlugAlphabet == {"A", "a", "0", " ", "-", "KELVIN", "E'"}

SlugNames == UNION {[1..n -> SlugAlphabet] : n \in 0..MaxLen}

InitSlug ==
    /\ root = "missing"
    /\ disk = <<>>
    /\ cache = {}
    /\ InitMain
    /\ net = [u \in InputUrls |-> "any"]
    /\ workers = Workers
    /\ slugName \in SlugNames
    /\ slug = <<>>

\* slug = slugify(show_name)
CallSlugify ==
    /\ slug = <<>>
    /\ slug' = slugify(slugName)
    /\ UNCHANGED <<slugName, workers, net, root, disk, tmp, cache, pc, dayIdx, pending, cur,
                   data, groups, tasks, requests, run, prior, entered, saved>>

NextSlug == CallSlugify

SpecSlug == InitSlug /\ [][NextSlug]_vars

\* ------------------------------------------------------------------------
\* Properties
\* ------------------------------------------------------------------------
\* the document is rewritten in memory and process_json_file has not returned
Rewritten == pc \in {"save", "replace", "except"}

IsBlank(name) == name # None /\ Strip(name) = <<>>

Named(name) == name # None /\ Strip(name) # <<>>

Uniform(programs) ==
    \A i, j \in 1..Len(programs) :
        (programs[i].show_name = programs[j].show_name /\ Named(programs[i].show_name))
            => programs[i].show_logo = programs[j].show_logo

\* C1: once a document is rewritten, any two of its entries with exactly equal,
\* non-blank show_name hold the same show_logo, in memory and, once the
\* document is replaced, on disk, whatever the logos were and however the
\* fetch ended.
C1_UniformRewrite ==
    /\ Rewritten => Uniform(data.programs)
    /\ \A p \in saved[run] : Uniform(disk[p].programs)

C1_Witness ==
    \E p \in saved[run] : \E i, j \in 1..Len(disk[p].programs) :
        /\ prior[p].programs[i].show_name = prior[p].programs[j].show_name
        /\ Named(prior[p].programs[i].show_name)
        /\ prior[p].programs[i].show_logo # prior[p].programs[j].show_logo
        /\ disk[p].programs[i].show_logo = disk[p].programs[j].show_logo

\* C2: a second run over the documents and the cache a first run left issues no
\* network request and leaves every document the first run wrote as it was.
C2_SecondRunIdle ==
    run = 2 =>
        /\ requests = 0
        /\ \A p \in saved[1] : disk[p] = prior[p]

\* what the pipeline may turn a document into: the same document, serialized
\* by json.dumps, with nothing but show_logo values changed
CompleteUpdate(old, new) ==
    /\ new.json = "object"
    /\ new.fmt = "indent2"
    /\ new.channel_name = old.channel_name
    /\ new.date = old.date
    /\ Len(new.programs) = Len(old.programs)
    /\ \A i \in 1..Len(old.programs) :
           [new.programs[i] EXCEPT !.show_logo = old.programs[i].show_logo] = old.programs[i]

\* C3: at every point the file at a document's path holds the complete prior
\* content or the complete updated content, and after a failed write of the
\* temporary file or a failed replace it holds the prior content.
C3_AtomicSave ==
    /\ \A p \in DOMAIN disk :
           \/ disk[p] = prior[p]
           \/ p \in saved[run] /\ CompleteUpdate(prior[p], disk[p])
    /\ pc = "except" => disk[cur] = prior[cur]

C3_Witness ==
    /\ pc = "except"
    /\ tmp[cur].st = "partial"
    /\ Dumps(data) # prior[cur]
    /\ disk[cur] = prior[cur]

\* the task of a show failed after its retries or on decode
FetchFailed(show) ==
    InResults(tasks, show) /\ ResultOf(tasks, show).err \in {"network", "decode"}

AllFallback(programs, indexes) ==
    \A n \in 1..Len(indexes) : programs[indexes[n]].show_logo = FALLBACK_LOGO_URL

\* C4 as stated: a group none of whose show_logo strings begins with "http",
\* or whose task failed, ends with the fallback URL in every entry.
C4_FallbackLiteral ==
    Rewritten =>
        \A g \in 1..Len(groups.show_to_indexes) :
            LET show == groups.show_to_indexes[g].k
                idxs == groups.show_to_indexes[g].v
            IN  (\/ \A n \in 1..Len(idxs) : ~StartsWithHttp(disk[cur].programs[idxs[n]].show_logo)
                 \/ FetchFailed(show))
                    => AllFallback(data.programs, idxs)

\* C4 amended: a group none of whose show_logo strings begins with "http" once
\* surrounding whitespace is stripped, or whose task failed after its retries
\* or on decode, ends with the fallback URL in every entry.
C4_FallbackStripped ==
    Rewritten =>
        \A g \in 1..Len(groups.show_to_indexes) :
            LET show == groups.show_to_indexes[g].k
                idxs == groups.show_to_indexes[g].v
            IN  (\/ \A n \in 1..Len(idxs) :
                        ~StartsWithHttp(Strip(disk[cur].programs[idxs[n]].show_logo))
                 \/ FetchFailed(show))
                    => AllFallback(data.programs, idxs)

C4_Witness ==
    /\ Rewritten
    /\ \E g, h \in 1..Len(groups.show_to_indexes) :
           /\ FetchFailed(groups.show_to_indexes[g].k)
           /\ ResultOf(tasks, groups.show_to_indexes[g].k).attempt = RETRY_COUNT
           /\ AllFallback(data.programs, groups.show_to_indexes[g].v)
           /\ ~InResults(tasks, groups.show_to_indexes[h].k)
           /\ AllFallback(data.programs, groups.show_to_indexes[h].v)

\* C5: an entry whose show_name is empty or blank is never modified: in memory
\* and on disk all its fields, show_logo included, keep their values.
C5_BlankUntouched ==
    \A p \in DOMAIN disk : \A i \in 1..Len(prior[p].programs) :
        IsBlank(prior[p].programs[i].show_name) =>
            /\ Len(disk[p].programs) >= i
            /\ disk[p].programs[i] = prior[p].programs[i]
            /\ (Rewritten /\ cur = p) => data.programs[i] = prior[p].programs[i]

C5_Witness ==
    \E p \in saved[run] : \E i \in 1..Len(prior[p].programs) :
        /\ IsBlank(prior[p].programs[i].show_name)
        /\ StartsWithHttp(prior[p].programs[i].show_logo)
        /\ disk[p].programs[i] = prior[p].programs[i]
        /\ disk[p].programs # prior[p].programs

\* C6: no two tasks of a document target the same destination path.
C6_DistinctPaths ==
    \A i, j \in 1..Len(tasks) : i # j => tasks[i].out_path # tasks[j].out_path

\* C7: a failure confined to one document never aborts the run: when the run
\* ends, process_json_file was called on every document of both buckets.
C7_RunContinues ==
    (root = "ok" /\ pc \in {"done", "crashed"}) =>
        \A p \in DOMAIN disk : \E n \in 1..Len(entered) : entered[n] = p

\* no document was read or written and no fetch was issued
Untouched ==
    /\ entered = <<>>
    /\ requests = 0
    /\ disk = prior
    /\ cache = {}
    /\ \A p \in DocPaths : tmp[p] = NoTmp

C9_CachedTask ==
    \A i \in 1..Len(tasks) :
        tasks[i].probe = "hit" =>
            /\ tasks[i].attempt = 0
            /\ tasks[i].st = "done"
            /\ tasks[i].err = "none"
            /\ Rewritten =>
                   \A n \in 1..Len(data.programs) :
                       (Named(disk[cur].programs[n].show_name)
                        /\ Strip(disk[cur].programs[n].show_name) = tasks[i].show_name)
                           => data.programs[n].show_logo =
                                  DEFAULT_BASE_URL \o <<"/">> \o DEFAULT_OUT_DIR \o <<"/">>
                                      \o cur[2] \o <<"/">> \o cur[1] \o <<"/">>
                                      \o slugify(tasks[i].show_name) \o <<".webp">>

C9_Witness ==
    /\ Rewritten
    /\ \E i \in 1..Len(tasks) :
           /\ tasks[i].probe = "hit"
           /\ \E n \in 1..Len(data.programs) :
                  /\ Strip(disk[cur].programs[n].show_name) = tasks[i].show_name
                  /\ data.programs[n].show_logo # disk[cur].programs[n].show_logo

\* C10: processing a document changes nothing but show_logo values: the number
\* and order of the entries, their other fields, channel_name and date stay.
C10_OnlyLogos ==
    /\ \A p \in DOMAIN disk :
           prior[p].json = "object" =>
               /\ disk[p].json = "object"
               /\ disk[p].channel_name = prior[p].channel_name
               /\ disk[p].date = prior[p].date
               /\ Len(disk[p].programs) = Len(prior[p].programs)
               /\ \A i \in 1..Len(prior[p].programs) :
                      [disk[p].programs[i] EXCEPT !.show_logo = prior[p].programs[i].show_logo]
                          = prior[p].programs[i]
    /\ Rewritten =>
           /\ data.channel_name = prior[cur].channel_name
           /\ data.date = prior[cur].date
           /\ Len(data.programs) = Len(prior[cur].programs)
           /\ \A i \in 1..Len(prior[cur].programs) :
                  [data.programs[i] EXCEPT !.show_logo = prior[cur].programs[i].show_logo]
                      = prior[cur].programs[i]

C10_Witness ==
    \E p \in saved[run] :
        /\ Len(disk[p].programs) = MaxEntries
        /\ \A i \in 1..Len(disk[p].programs) :
               disk[p].programs[i].show_logo # prior[p].programs[i].show_logo

\* one step of worker(tasks[i])
TaskStep(i) ==
    \/ StartCached(i)
    \/ StartDownload(i)
    \/ \E body \in {"image", "garbage"} : AttemptOk(i, body)
    \/ AttemptFail(i)
    \/ ConvertBad(i)
    \/ ConvertSave(i)
    \/ ConvertSaveFail(i)

\* tasks[i] waits for a pool thread that an unfinished task holds or is due
WaitsForUnfinished(i) ==
    /\ tasks[i].st = "queued"
    /\ \E k \in 1..Len(tasks) :
          \/ tasks[k].st \in {"download", "convert"}
          \/ k < i /\ tasks[k].st = "queued"

\* C11: a task that failed (network, decode or write error) never stops
\* another task of the document: a task without a result is still inside the
\* pool and either can take its next step or waits only for tasks that are
\* themselves unfinished; and when the pool is left every item of show_to_url
\* has exactly one result.
C11_FaultIsolation ==
    /\ \A j \in 1..Len(tasks) :
          tasks[j].st # "done" =>
              /\ pc = "pool"
              /\ (ENABLED TaskStep(j)) \/ WaitsForUnfinished(j)
    /\ Rewritten =>
          /\ AllDone
          /\ \A g \in 1..Len(groups.show_to_url) :
                Cardinality({i \in 1..Len(tasks) :
                                tasks[i].show_name = groups.show_to_url[g].k}) = 1
          /\ Len(tasks) = Len(groups.show_to_url)

\* one task of the document failed, another one fetched its logo
C11_Witness ==
    /\ Rewritten
    /\ \E i, j \in 1..Len(tasks) :
          /\ tasks[i].err # "none"
          /\ tasks[j].err = "none"
          /\ tasks[j].probe = "miss"

\* the document is loaded and grouped and process_json_file has not returned
Grouped == pc = "pool" \/ Rewritten

\* process_json_file has built show_to_url, show_to_indexes and tasks (line
\* 144) and no task has started; none of the three is assigned after that
AtPool == pc = "pool" /\ \A i \in 1..Len(tasks) : tasks[i].st = "queued"

Range(s) == {s[k] : k \in 1..Len(s)}

\* entries i and j of the document are listed under one key of show_to_indexes
SameGroup(i, j) ==
    \E g \in 1..Len(groups.show_to_indexes) :
        {i, j} \subseteq Range(groups.show_to_indexes[g].v)

TasksOf(show) == {t \in 1..Len(tasks) : tasks[t].show_name = show}

\* C12 as stated: two entries with a show name are in the same show-group
\* exactly when their show_name strings are equal as they stand in the
\* document, surrounding whitespace included.
C12_ExactNames ==
    AtPool =>
        \A i, j \in 1..Len(data.programs) :
            (Named(data.programs[i].show_name) /\ Named(data.programs[j].show_name))
                => (SameGroup(i, j) <=> data.programs[i].show_name = data.programs[j].show_name)

\* C12: two entries with a show name are in the same show-group exactly when
\* their show_name strings are equal, case-sensitively, once surrounding
\* whitespace is stripped; names that differ in case are in separate groups,
\* and when both entries carry a usable logo each group has its own task.
C12_StrippedNames ==
    AtPool =>
        LET n      == Len(data.programs)
            name   == [i \in 1..n |-> Strip(data.programs[i].show_name)]
            usable == [i \in 1..n |-> StartsWithHttp(Strip(prior[cur].programs[i].show_logo))]
        IN  \A i \in 1..n : \A j \in i..n :
                (name[i] # <<>> /\ name[j] # <<>>) =>
                    /\ SameGroup(i, j) <=> name[i] = name[j]
                    /\ (name[i] # name[j] /\ usable[i] /\ usable[j])
                           => /\ TasksOf(name[i]) # {}
                              /\ TasksOf(name[j]) # {}
                              /\ TasksOf(name[i]) \cap TasksOf(name[j]) = {}

\* two names that differ only in case: two groups, two tasks
C12_Witness ==
    /\ AtPool
    /\ \E i, j \in 1..Len(data.programs) :
          /\ Named(data.programs[i].show_name)
          /\ Named(data.programs[j].show_name)
          /\ data.programs[i].show_name # data.programs[j].show_name
          /\ LowerAll(data.programs[i].show_name) = LowerAll(data.programs[j].show_name)
          /\ ~SameGroup(i, j)
          /\ Len(tasks) = 2

\* C13: while any task of the document has no result yet, process_json_file
\* is still at the pool: no entry of the document in memory is rewritten, the
\* document's .tmp file is not written and the document on disk is as the run
\* found it; the rewrite happens only with every task done.
C13_Barrier ==
    /\ \A i \in 1..Len(tasks) :
          tasks[i].st # "done" =>
              /\ pc = "pool"
              /\ data = Loads(prior[cur])
              /\ tmp[cur] = NoTmp
              /\ disk[cur] = prior[cur]
    /\ Rewritten => AllDone

\* the rewrite has happened after two tasks that both went to the network
C13_Witness ==
    /\ Rewritten
    /\ Len(tasks) = 2
    /\ \A i \in 1..Len(tasks) : tasks[i].probe = "miss" /\ tasks[i].attempt > 0
    /\ data # Loads(prior[cur])

\* how far worker(task) is from its return: the attempts download_with_retries
\* has left, then the conversion
Rank(t) ==
    CASE t.st = "queued"   -> RETRY_COUNT + 3
      [] t.st = "download" -> (RETRY_COUNT - t.attempt) + 2
      [] t.st = "convert"  -> 1
      [] t.st = "done"     -> 0

TaskBounded(t) ==
    /\ t.attempt <= RETRY_COUNT
    /\ t.st = "download" => (t.attempt < RETRY_COUNT /\ t.sleeps = t.attempt)
    /\ (t.st \in {"convert", "done"} /\ t.attempt > 0) => t.sleeps = t.attempt - 1
    /\ t.err = "network" <=> (t.st = "done" /\ t.attempt = RETRY_COUNT /\ t.body = "none")

\* C14: every fetch task terminates. A task issues at most RETRY_COUNT
\* requests, sleeps after a failed attempt only when another attempt follows
\* (so one time fewer than the attempts it made), ends failed with the network
\* error exactly when RETRY_COUNT attempts failed, can always take a step while
\* it downloads, and every step of a task brings it strictly closer to its
\* return.
C14_TaskTerminates ==
    /\ [](\A i \in 1..Len(tasks) :
              /\ TaskBounded(tasks[i])
              /\ tasks[i].st = "download" =>
                    ENABLED (AttemptFail(i) \/ \E body \in {"image", "garbage"} : AttemptOk(i, body)))
    /\ [][(pc = "pool" /\ pc' = "pool" /\ tasks' # tasks) =>
              \E i \in 1..Len(tasks) :
                  /\ Rank(tasks'[i]) < Rank(tasks[i])
                  /\ \A j \in 1..Len(tasks) : j # i => tasks'[j] = tasks[j]]_vars

\* a task that failed RETRY_COUNT times and slept between the attempts only
C14_Witness ==
    \E i \in 1..Len(tasks) :
        /\ tasks[i].err = "network"
        /\ tasks[i].attempt = RETRY_COUNT
        /\ tasks[i].sleeps = RETRY_COUNT - 1

\* the indexes show_to_indexes lists under show
IndexesOf(show) ==
    LET g == CHOOSE g \in 1..Len(groups.show_to_indexes) : groups.show_to_indexes[g].k = show
    IN  groups.show_to_indexes[g].v

\* C15: a decode failure is never retried. A task whose downloaded body is no
\* image is never back at downloading; its only step ends it as failed with
\* the decode error, with no further request; and its show's entries are
\* rewritten to FALLBACK_LOGO_URL.
C15_DecodeNotRetried ==
    /\ [](\A i \in 1..Len(tasks) :
              /\ tasks[i].body = "garbage" =>
                    /\ tasks[i].st \in {"convert", "done"}
                    /\ tasks[i].st = "done" => tasks[i].err = "decode"
                    /\ Rewritten => AllFallback(data.programs, IndexesOf(tasks[i].show_name))
              /\ tasks[i].err = "decode" => tasks[i].body = "garbage")
    /\ [][\A i \in 1..Len(tasks) :
              (/\ pc = "pool"
               /\ pc' = "pool"
               /\ tasks[i].body = "garbage"
               /\ tasks'[i] # tasks[i])
                  => /\ tasks'[i] = [tasks[i] EXCEPT !.st = "done", !.err = "decode"]
                     /\ requests' = requests]_vars

\* a task failed on decode after one request and its show got the fallback
C15_Witness ==
    /\ Rewritten
    /\ \E i \in 1..Len(tasks) :
          /\ tasks[i].err = "decode"
          /\ tasks[i].attempt = 1
          /\ AllFallback(data.programs, IndexesOf(tasks[i].show_name))

\* the assets that existed when process_json_file was called on the current
\* document: a path a task found missing and then saved was not among them
CacheAtCall ==
    cache \ {tasks[i].out_path : i \in {j \in 1..Len(tasks) : tasks[j].probe = "miss"}}

\* the error worker(t) returns when it runs alone over the assets c
SeqOutcome(t, c) ==
    IF t.out_path \in c THEN "none"
    ELSE CASE Response(t.url) = "image"   -> "none"
           [] Response(t.url) = "garbage" -> "decode"
           [] Response(t.url) = "down"    -> "network"

\* the results of the tasks run one after the other, in the order of the list
RECURSIVE SeqResults(_, _, _)
SeqResults(ts, i, c) ==
    IF i > Len(ts) THEN <<>>
    ELSE LET e == SeqOutcome(ts[i], c)
         IN  <<[ts[i] EXCEPT !.err = e]>>
                 \o SeqResults(ts, i + 1, IF e = "none" THEN c \cup {ts[i].out_path} ELSE c)

\* C16: with the same assets at the start and the same answer of the network
\* for each URL (and no error writing an asset), the rewritten document is the
\* one the tasks produce when they run one after the other, whatever the
\* order in which the pool ran and completed them.
C16_OrderIndependent ==
    (/\ Rewritten
     /\ \A i \in 1..Len(tasks) :
           tasks[i].err # "write" /\ Response(tasks[i].url) \in Responses)
        => data.programs =
               Rewrite(prior[cur].programs, groups.show_to_indexes,
                       SeqResults(tasks, 1, CacheAtCall), cur[2], cur[1])

\* the requests the tasks of the current document have issued
RECURSIVE SumAttempts(_)
SumAttempts(ts) == IF ts = <<>> THEN 0 ELSE Head(ts).attempt + SumAttempts(Tail(ts))

Probed(ts) == {i \in 1..Len(ts) : ts[i].probe # "none"}

\* C17: a show-group with a canonical URL (a key of show_to_url) has exactly
\* one task and a group without one has none; there are no other tasks, cache
\* probes and requests of the document are those of its tasks only, and a
\* group without a canonical URL is rewritten to FALLBACK_LOGO_URL.
C17_TaskPerCanonicalUrl ==
    Grouped =>
        /\ \A g \in 1..Len(groups.show_to_indexes) :
              LET show == groups.show_to_indexes[g].k
              IN  IF HasKey(groups.show_to_url, show)
                  THEN Cardinality(TasksOf(show)) = 1
                  ELSE /\ TasksOf(show) = {}
                       /\ Rewritten =>
                             AllFallback(data.programs, groups.show_to_indexes[g].v)
        /\ \A t \in 1..Len(tasks) : HasKey(groups.show_to_indexes, tasks[t].show_name)
        /\ Len(tasks) = Len(groups.show_to_url)
        /\ Cardinality(Probed(tasks)) <= Len(groups.show_to_url)
        /\ Len(entered) = 1 => requests = SumAttempts(tasks)

\* a document with one group that has a canonical URL and one that has none:
\* one task, and all the requests of the run are that task's
C17_Witness ==
    /\ Rewritten
    /\ Len(groups.show_to_indexes) = 2
    /\ Len(groups.show_to_url) = 1
    /\ Len(tasks) = 1
    /\ requests = tasks[1].attempt
    /\ requests > 0
    /\ \E g \in 1..2 :
          /\ ~HasKey(groups.show_to_url, groups.show_to_indexes[g].k)
          /\ AllFallback(data.programs, groups.show_to_indexes[g].v)

\* the entries of the loaded document whose stripped show_name is show
Members(show) ==
    {i \in 1..Len(prior[cur].programs) :
        Named(prior[cur].programs[i].show_name)
        /\ Strip(prior[cur].programs[i].show_name) = show}

Min(S) == CHOOSE m \in S : \A n \in S : m <= n

\* the value show_to_url holds for show
UrlOf(show) ==
    LET g == CHOOSE g \in 1..Len(groups.show_to_url) : groups.show_to_url[g].k = show
    IN  groups.show_to_url[g].v

\* C18 as stated: the canonical URL of a group is the show_logo, as it stands
\* in the document, of the lowest-index entry of the group whose show_logo
\* begins with "http", and there is none when no show_logo begins with "http".
C18_FirstLiteralUrl ==
    AtPool =>
        \A g \in 1..Len(groups.show_to_indexes) :
            LET show  == groups.show_to_indexes[g].k
                valid == {i \in Members(show) :
                             StartsWithHttp(prior[cur].programs[i].show_logo)}
            IN  IF valid = {} THEN ~HasKey(groups.show_to_url, show)
                ELSE /\ HasKey(groups.show_to_url, show)
                     /\ UrlOf(show) = prior[cur].programs[Min(valid)].show_logo

\* C18: the canonical URL of a group is the show_logo, stripped of surrounding
\* whitespace, of the lowest-index entry of the group whose stripped show_logo
\* begins with "http" (a later entry's URL never replaces it), there is none
\* when no entry has such a show_logo, and show_to_indexes lists every entry of
\* the group in document order, whatever its own show_logo is.
C18_FirstStrippedUrl ==
    AtPool =>
        \A g \in 1..Len(groups.show_to_indexes) :
            LET show  == groups.show_to_indexes[g].k
                idxs  == groups.show_to_indexes[g].v
                valid == {i \in Members(show) :
                             StartsWithHttp(Strip(prior[cur].programs[i].show_logo))}
            IN  /\ IF valid = {} THEN ~HasKey(groups.show_to_url, show)
                   ELSE /\ HasKey(groups.show_to_url, show)
                        /\ UrlOf(show) = Strip(prior[cur].programs[Min(valid)].show_logo)
                /\ Range(idxs) = Members(show)
                /\ \A m, n \in 1..Len(idxs) : m < n => idxs[m] < idxs[n]

\* a group of two entries with two different usable URLs: the first entry's
\* is kept and both indexes are listed
C18_Witness ==
    /\ AtPool
    /\ \E g \in 1..Len(groups.show_to_indexes) :
          LET show == groups.show_to_indexes[g].k
          IN  /\ groups.show_to_indexes[g].v = <<1, 2>>
              /\ HasKey(groups.show_to_url, show)
              /\ StartsWithHttp(Strip(prior[cur].programs[2].show_logo))
              /\ Strip(prior[cur].programs[1].show_logo) # Strip(prior[cur].programs[2].show_logo)
              /\ StartsWithHttp(Strip(prior[cur].programs[1].show_logo))
              /\ UrlOf(show) = Strip(prior[cur].programs[1].show_logo)

\* the URL the entries of show are to get, from the results of the tasks
ResolvedUrl(show) ==
    IF TasksOf(show) # {} /\ \A t \in TasksOf(show) : tasks[t].err = "none"
    THEN PublicUrl(cur[2], cur[1], show)
    ELSE FALLBACK_LOGO_URL

\* text holds the resolved show_logo in every entry that has a show name
FullyResolved(text) ==
    /\ Len(text.programs) = Len(prior[cur].programs)
    /\ \A i \in 1..Len(prior[cur].programs) :
          Named(prior[cur].programs[i].show_name) =>
              text.programs[i].show_logo = ResolvedUrl(Strip(prior[cur].programs[i].show_name))

\* C19: within one run a document is replaced on disk at most once:
\* process_json_file is called on a document once, a file changes only in the
\* os.replace step of the call on it, and that step happens on a document not
\* replaced before in the run; the content then written holds the resolved
\* show_logo of every show-group of the document.
C19_ReplacedOnce ==
    /\ [](\A m, n \in 1..Len(entered) : m # n => entered[m] # entered[n])
    /\ [][/\ (pc = "replace" /\ pc' = "main") =>
                 /\ cur \notin saved[run]
                 /\ saved'[run] = saved[run] \cup {cur}
                 /\ AllDone
                 /\ FullyResolved(disk'[cur])
          /\ \A p \in DOMAIN disk :
                 disk'[p] # disk[p] => (p = cur /\ pc = "replace" /\ pc' = "main")
          /\ DOMAIN disk' = DOMAIN disk]_vars

\* a replaced document with two show-groups, both rewritten
C19_Witness ==
    \E p \in saved[run] :
        /\ Len(disk[p].programs) = 2
        /\ Named(disk[p].programs[1].show_name)
        /\ Named(disk[p].programs[2].show_name)
        /\ Strip(disk[p].programs[1].show_name) # Strip(disk[p].programs[2].show_name)
        /\ disk[p].programs[1].show_logo # prior[p].programs[1].show_logo
        /\ disk[p].programs[2].show_logo # prior[p].programs[2].show_logo

\* C20: a document that is no JSON keeps its content on disk, has no .tmp file
\* and is never replaced; the call on it ends with no task, no parsed document
\* and no request, back in main's loop; and a run that reached it and
\* finishes has called process_json_file on every document, the ones after it
\* included.
C20_InvalidJsonSkipped ==
    \A p \in DOMAIN disk :
        prior[p].json = "invalid" =>
            /\ disk[p] = prior[p]
            /\ tmp[p] = NoTmp
            /\ p \notin saved[run]
            /\ cur = p =>
                  /\ pc \in {"main", "done"}
                  /\ tasks = <<>>
                  /\ data = NoData
                  /\ Len(entered) = 1 => requests = 0
            /\ (p \in Range(entered) /\ pc = "done") =>
                  \A q \in DOMAIN disk : q \in Range(entered)

\* the run skipped a document that is no JSON and went on to replace the next
C20_Witness ==
    /\ pc = "done"
    /\ Len(entered) = 2
    /\ prior[entered[1]].json = "invalid"
    /\ disk[entered[1]] = prior[entered[1]]
    /\ entered[2] \in saved[run]
    /\ requests > 0

\* the entries of the document text at path p that carry the Namer's public
\* URL of their own show all have an asset at the show's destination path
AssetsExist(p, text) ==
    \A i \in 1..Len(text.programs) :
        LET name == text.programs[i].show_name
        IN  (/\ Named(name)
             /\ text.programs[i].show_logo = PublicUrl(p[2], p[1], Strip(name)))
                => OutPath(p[2], p[1], Strip(name)) \in cache

\* C21: every document the run has replaced on disk, and the rewritten
\* document in memory that is about to be saved, point an entry at the public
\* URL of a show only when a file exists at the show's destination path.
C21_AssetExists ==
    /\ \A p \in saved[run] : AssetsExist(p, disk[p])
    /\ Rewritten => AssetsExist(cur, data)

\* a replaced document with an entry at the public URL, its asset in place
C21_Witness ==
    \E p \in saved[run] :
        /\ AssetsExist(p, disk[p])
        /\ \E i \in 1..Len(disk[p].programs) :
              /\ Named(disk[p].programs[i].show_name)
              /\ disk[p].programs[i].show_logo =
                     PublicUrl(p[2], p[1], Strip(disk[p].programs[i].show_name))
              /\ prior[p].programs[i].show_logo # disk[p].programs[i].show_logo

\* C22: a task that ended failed on a network or a decode error has no file
\* at its destination path, so no later run finds the show cached.
C22_FailedLeavesAbsent ==
    \A i \in 1..Len(tasks) :
        (tasks[i].st = "done" /\ tasks[i].err \in {"network", "decode"})
            => tasks[i].out_path \notin cache

\* process_json_file was called on p and has returned to main's loop
Returned(p) == p \in Range(entered) /\ (cur # p \/ pc \in {"main", "done"})

\* C23: once process_json_file has returned for a document that was parsed,
\* the document's .tmp file does not exist, whether the save succeeded (the
\* file was renamed over the document) or failed (it was unlinked).
C23_NoTempLeft ==
    \A p \in DOMAIN disk :
        (Returned(p) /\ prior[p].json = "object") => tmp[p].st = "absent"

\* process_json_file has returned for a parsed document it could not save
C23_Witness ==
    /\ Returned(cur)
    /\ prior[cur].json = "object"
    /\ cur \notin saved[run]
    /\ disk[cur] = prior[cur]
    /\ tmp[cur].st = "absent"

\* C24: during the fetch phase at most `workers` tasks are executing, and a
\* task executes only while process_json_file is at the pool of the document
\* the task was built for: every task in the list is a task of the current
\* document, so tasks of two documents never run at the same time.
C24_PoolBound ==
    /\ Cardinality(Running) <= workers
    /\ Running # {} => pc = "pool"
    /\ \A i \in 1..Len(tasks) :
          /\ cur # NoDoc
          /\ tasks[i].out_path[1] = cur[2]
          /\ tasks[i].out_path[2] = cur[1]
          /\ HasKey(groups.show_to_url, tasks[i].show_name)

\* a pool of one thread is busy with one task while another task is queued
C24_Witness ==
    /\ pc = "pool"
    /\ workers = 1
    /\ Cardinality(Running) = 1
    /\ \E i \in 1..Len(tasks) : tasks[i].st = "queued"

IsAsciiAlnum(c) == c \in {"A", "B", "N"} \/ IsSlugChar(c)

Unknown == <<"u", "n", "k", "n", "o", "w", "n">>

\* s is not empty, has only characters of a-z, 0-9 and "-", and no "-" at
\* either end or next to another "-"
WellFormedSlug(s) ==
    /\ s # <<>>
    /\ \A k \in 1..Len(s) : IsSlugChar(s[k]) \/ s[k] = "-"
    /\ s[1] # "-"
    /\ s[Len(s)] # "-"
    /\ \A k \in 1..(Len(s) - 1) : ~(s[k] = "-" /\ s[k + 1] = "-")

NotDash(c) == c # "-"

\* C25 as stated: the slug is well formed, and it is "unknown" exactly when
\* the name contains no ASCII letter or digit.
C25_UnknownIffNoAscii ==
    slug # <<>> =>
        /\ WellFormedSlug(slug)
        /\ slug = Unknown <=> \A k \in 1..Len(slugName) : ~IsAsciiAlnum(slugName[k])

\* C25: the slug is well formed; it is "unknown" when the lower-cased name has
\* no character of a-z0-9, and otherwise its characters other than "-" are the
\* a-z0-9 characters of the lower-cased name, in their order; a letter
\* outside ASCII whose lower() is an ASCII letter is one of them.
C25_SlugWellFormed ==
    slug # <<>> =>
        LET kept == SelectSeq(LowerAll(slugName), IsSlugChar)
        IN  /\ WellFormedSlug(slug)
            /\ IF kept = <<>> THEN slug = Unknown
               ELSE SelectSeq(slug, NotDash) = kept

\* slugify was called on a name with a separator and a letter outside ASCII
\* that lower() turns into an ASCII letter
C25_Witness ==
    /\ slug # <<>>
    /\ \E k \in 1..Len(slugName) : slugName[k] = "KELVIN"
    /\ \E k \in 1..Len(slug) : slug[k] = "-"

====
